---- MODULE Spec2Model ----
(***************************************************************************)
(* Model of src/main.py of point-attention-net: the training orchestrator  *)
(* train(), the evaluator test(), the label-smoothed loss calculate_loss() *)
(* and the two sklearn metrics the orchestrator and the evaluator call.    *)
(*                                                                         *)
(* Three specifications share the variables:                               *)
(*   Spec        one run of main: train(args) followed by test(args, sd)   *)
(*   SpecMetrics accuracy / balanced accuracy on bounded label sequences   *)
(*   SpecLoss    calculate_loss on bounded logits shapes and gold labels   *)
(***************************************************************************)
EXTENDS Integers, Sequences, FiniteSets, TLC

VARIABLES
    pc,           \* position in main: train()'s loop, then test(); args.dry_ryn is the source's spelling
    args,         \* the Params object: epochs, dry_ryn, last_checkpoint()
    loaders,      \* number of batches of train_loader / validation_loader
    fs,           \* the two checkpoint files: args.checkpoint_path(), best_model.m7
    model,        \* model.state_dict(): where the weights came from + optimizer steps
    epoch,        \* loop variable of `for epoch in range(args.epochs)`
    batch,        \* batches consumed so far by the running pass
    global_best,  \* (global_best_loss, global_best_acc, global_best_avg_acc); <<>> before line 84
    val,          \* (val_loss/count, val_acc, avg_per_class_acc) of the running epoch
    csv,          \* rows handed to args.csv
    calls,        \* calls made on the collaborators during the running epoch
    best_writes,  \* 1-based epochs at which best_model.m7 was written
    summary,      \* triples handed to args.print_summary
    yTrue,        \* true labels given to the metrics
    yPred,        \* predicted labels given to the metrics
    score,        \* <<>> or <<[acc, bal]>>: the metrics' result (rationals <<num, den>>)
    lossIn,       \* arguments of a calculate_loss call
    lossOut       \* <<>> or <<outcome>> of the calculate_loss call

vars == <<pc, args, loaders, fs, model, epoch, batch, global_best, val, csv,
          calls, best_writes, summary, yTrue, yPred, score, lossIn, lossOut>>

----------------------------------------------------------------------------
(* Bounds *)

MaxEpochs == 3
MaxTrainBatches == 2
MaxValBatches == 1
MaxLen == 3
MaxLabel == 2
MaxClasses == 3
MaxBatchSize == 2

----------------------------------------------------------------------------
(* Rationals <<num, den>> with den > 0 *)

RatLT(a, b) == a[1] * b[2] < b[1] * a[2]

RatLE(a, b) == a[1] * b[2] <= b[1] * a[2]

RECURSIVE SumOver(_, _)
SumOver(S, f) ==
    IF S = {} THEN 0
    ELSE LET x == CHOOSE y \in S : TRUE IN f[x] + SumOver(S \ {x}, f)

RECURSIVE ProdOver(_, _)
ProdOver(S, f) ==
    IF S = {} THEN 1
    ELSE LET x == CHOOSE y \in S : TRUE IN f[x] * ProdOver(S \ {x}, f)

----------------------------------------------------------------------------
(* sklearn.metrics as called at lines 150-151, 156-157 and 200-201 *)

\* metrics.accuracy_score(y_true, y_pred): fraction of matching positions
accuracy_score(y_true, y_pred) ==
    <<Cardinality({k \in 1..Len(y_true) : y_pred[k] = y_true[k]}), Len(y_true)>>

TrueClasses(y_true) == {y_true[k] : k \in 1..Len(y_true)}

Support(y_true, c) == Cardinality({k \in 1..Len(y_true) : y_true[k] = c})

TruePositives(y_true, y_pred, c) ==
    Cardinality({k \in 1..Len(y_true) : y_true[k] = c /\ y_pred[k] = c})

\* a mutant: the plain accuracy is returned as the balanced one
balanced_accuracy_score_plain(y_true, y_pred) ==
    accuracy_score(y_true, y_pred)

\* metrics.balanced_accuracy_score(y_true, y_pred): mean over the classes
\* present in y_true of the recall tp_c / n_c, as one fraction over the
\* common denominator K * prod n_c
balanced_accuracy_score(y_true, y_pred) ==
    LET C == TrueClasses(y_true)
        n == [c \in C |-> Support(y_true, c)]
        D == ProdOver(C, n)
        t == [c \in C |-> TruePositives(y_true, y_pred, c) * (D \div n[c])]
    IN  <<SumOver(C, t), D * Cardinality(C)>>

----------------------------------------------------------------------------
(* train(args): the state it works on *)

Paths == {"ckpt", "best"}

\* the weights a file of an earlier run holds
PrevState(path) == [origin |-> path, steps |-> 0]

\* select_model(args): freshly constructed weights
FreshModel == [origin |-> "init", steps |-> 0]

\* line 84
Sentinel == [loss |-> 0, acc |-> 0, avg_acc |-> 0]

\* (val_loss/count, val_acc, avg_per_class_acc) triples a validation pass can
\* yield, accuracies in tenths: no class recalled at all, two passes tied at a
\* balanced accuracy of 0.5, two tied at 0.6
ValOutcomes ==
    { [loss |-> 9, acc |-> 0, avg_acc |-> 0],
      [loss |-> 4, acc |-> 5, avg_acc |-> 5],
      [loss |-> 3, acc |-> 7, avg_acc |-> 5],
      [loss |-> 3, acc |-> 5, avg_acc |-> 6],
      [loss |-> 2, acc |-> 7, avg_acc |-> 6] }

NoVal == [loss |-> 0, acc |-> 0, avg_acc |-> 0]

IdleMetrics == yTrue = <<>> /\ yPred = <<>> /\ score = <<>>

IdleLoss == lossIn = <<>> /\ lossOut = <<>>

Init ==
    /\ pc = "start"
    /\ args \in [epochs : 0..MaxEpochs, dry_ryn : BOOLEAN,
                 last_checkpoint : {""} \cup Paths]
    /\ loaders \in [train : 0..MaxTrainBatches, validation : 0..MaxValBatches]
    /\ fs \in {[p \in Paths |-> IF p \in S THEN <<PrevState(p)>> ELSE <<>>] :
                  S \in SUBSET Paths}
    /\ model = FreshModel
    /\ epoch = 0
    /\ batch = 0
    /\ global_best = <<>>
    /\ val = NoVal
    /\ csv = <<>>
    /\ calls = <<>>
    /\ best_writes = <<>>
    /\ summary = <<>>
    /\ IdleMetrics
    /\ IdleLoss

\* lines 81-84: resume from args.last_checkpoint(), then reset the best triple
Start ==
    /\ pc = "start"
    /\ IF args.last_checkpoint # "" /\ fs[args.last_checkpoint] = <<>>
       THEN \* torch.load raises FileNotFoundError
            /\ pc' = "aborted"
            /\ UNCHANGED <<model, global_best>>
       ELSE /\ model' = IF args.last_checkpoint # ""
                        THEN fs[args.last_checkpoint][1] ELSE model
            /\ global_best' = <<Sentinel>>
            /\ pc' = "loop"
    /\ UNCHANGED <<args, loaders, fs, epoch, batch, val, csv, calls,
                   best_writes, summary, yTrue, yPred, score, lossIn, lossOut>>

\* a mutant: range(args.epochs + 1)
LoopCondInclusive(e, n) == e <= n

\* line 85: `for epoch in range(args.epochs)` has another epoch to run
LoopCond(e, n) == e < n

\* lines 85-95: enter the next epoch; train_batch() starts with scheduler.step()
EpochBegin ==
    /\ pc = "loop"
    /\ LoopCond(epoch, args.epochs)
    /\ calls' = <<"scheduler.step">>
    /\ batch' = 0
    /\ pc' = "train"
    /\ UNCHANGED <<args, loaders, fs, model, epoch, global_best, val, csv,
                   best_writes, summary, yTrue, yPred, score, lossIn, lossOut>>

\* lines 98-115: one batch: forward, loss, backward, opt.step(); dry run breaks
TrainBatch ==
    /\ pc = "train"
    /\ batch < loaders.train
    /\ model' = [model EXCEPT !.steps = @ + 1]
    /\ calls' = Append(calls, "opt.step")
    /\ batch' = batch + 1
    /\ pc' = IF args.dry_ryn THEN "trainEnd" ELSE "train"
    /\ UNCHANGED <<args, loaders, fs, epoch, global_best, val, csv,
                   best_writes, summary, yTrue, yPred, score, lossIn, lossOut>>

\* a mutant: an exception handler that dumps the weights before re-raising
BatchFailSaving ==
    /\ pc \in {"train", "val"}
    /\ batch < (IF pc = "train" THEN loaders.train ELSE loaders.validation)
    /\ fs' = [fs EXCEPT !["ckpt"] = <<model>>]
    /\ pc' = "aborted"
    /\ UNCHANGED <<args, loaders, model, epoch, batch, global_best, val, csv,
                   calls, best_writes, summary, yTrue, yPred, score, lossIn, lossOut>>

\* lines 98-106 and 136-141: a batch raises (malformed sample, shape mismatch,
\* a raising loss); nothing in train() catches it
BatchFail ==
    /\ pc \in {"train", "val"}
    /\ batch < (IF pc = "train" THEN loaders.train ELSE loaders.validation)
    /\ pc' = "aborted"
    /\ UNCHANGED <<args, loaders, fs, model, epoch, batch, global_best, val, csv,
                   calls, best_writes, summary, yTrue, yPred, score, lossIn, lossOut>>

\* a mutant: the outer loop's dry-run break is missing
DryBreakMissing(a) == FALSE

\* lines 122-123: `if args.dry_ryn: break`
DryBreak(a) == a.dry_ryn

\* lines 117-123: the training pass ends; np.concatenate of no batch raises
TrainPassEnd ==
    /\ \/ pc = "trainEnd"
       \/ pc = "train" /\ batch = loaders.train
    /\ IF batch = 0 THEN pc' = "aborted" /\ batch' = batch
       ELSE IF DryBreak(args) THEN pc' = "summary" /\ batch' = batch
       ELSE pc' = "val" /\ batch' = 0
    /\ UNCHANGED <<args, loaders, fs, model, epoch, global_best, val, csv,
                   calls, best_writes, summary, yTrue, yPred, score, lossIn, lossOut>>

\* a mutant: the validation loop also steps the optimizer
ValBatchStepping ==
    /\ pc = "val"
    /\ batch < loaders.validation
    /\ model' = [model EXCEPT !.steps = @ + 1]
    /\ calls' = Append(calls, "opt.step")
    /\ batch' = batch + 1
    /\ UNCHANGED <<pc, args, loaders, fs, epoch, global_best, val, csv,
                   best_writes, summary, yTrue, yPred, score, lossIn, lossOut>>

\* lines 136-146: one validation batch under torch.no_grad(): forward and loss only
ValBatch ==
    /\ pc = "val"
    /\ batch < loaders.validation
    /\ calls' = Append(calls, "val.forward")
    /\ batch' = batch + 1
    /\ UNCHANGED <<pc, args, loaders, fs, model, epoch, global_best, val, csv,
                   best_writes, summary, yTrue, yPred, score, lossIn, lossOut>>

\* lines 148-151: the validation pass ends and its metrics are computed
ValPassEnd ==
    /\ pc = "val"
    /\ batch = loaders.validation
    /\ IF batch = 0 THEN pc' = "aborted" /\ val' = val
       ELSE /\ \E o \in ValOutcomes : val' = o
            /\ pc' = "csv"
    /\ UNCHANGED <<args, loaders, fs, model, epoch, batch, global_best, csv,
                   calls, best_writes, summary, yTrue, yPred, score, lossIn, lossOut>>

\* lines 153-161: args.csv(epoch, ..., val_loss/count, val_acc, avg_per_class_acc, ...)
EmitCsv ==
    /\ pc = "csv"
    /\ csv' = Append(csv, [epoch |-> epoch, loss |-> val.loss, acc |-> val.acc,
                           avg_acc |-> val.avg_acc])
    /\ calls' = Append(calls, "csv")
    /\ pc' = "save"
    /\ UNCHANGED <<args, loaders, fs, model, epoch, batch, global_best, val,
                   best_writes, summary, yTrue, yPred, score, lossIn, lossOut>>

\* a mutant: the latest checkpoint is written only on a non-zero balanced accuracy
SaveLatestIfScored ==
    /\ pc = "save"
    /\ IF val.avg_acc > 0
       THEN /\ fs' = [fs EXCEPT !["ckpt"] = <<model>>]
            /\ calls' = Append(calls, "save_latest")
       ELSE UNCHANGED <<fs, calls>>
    /\ pc' = "best"
    /\ UNCHANGED <<args, loaders, model, epoch, batch, global_best, val, csv,
                   best_writes, summary, yTrue, yPred, score, lossIn, lossOut>>

\* line 163: torch.save(model.state_dict(), args.checkpoint_path())
SaveLatest ==
    /\ pc = "save"
    /\ fs' = [fs EXCEPT !["ckpt"] = <<model>>]
    /\ calls' = Append(calls, "save_latest")
    /\ pc' = "best"
    /\ UNCHANGED <<args, loaders, model, epoch, batch, global_best, val, csv,
                   best_writes, summary, yTrue, yPred, score, lossIn, lossOut>>

\* a mutant: a tie counts as an improvement
ImprovedOrTied(avg_per_class_acc, best) == avg_per_class_acc >= best.avg_acc

\* line 164: avg_per_class_acc > global_best_avg_acc
Improved(avg_per_class_acc, best) == avg_per_class_acc > best.avg_acc

\* a mutant: the best triple keeps its old loss
NewBestStaleLoss(v, best) == [loss |-> best.loss, acc |-> v.acc, avg_acc |-> v.avg_acc]

\* a mutant: the best triple is never replaced
NewBestForgotten(v, best) == best

\* line 165: the triple that replaces the best one
NewBest(v, best) == [loss |-> v.loss, acc |-> v.acc, avg_acc |-> v.avg_acc]

\* lines 164-168: keep or replace the best triple and slot; the epoch is over
BestCheck ==
    /\ pc = "best"
    /\ IF Improved(val.avg_acc, global_best[1])
       THEN /\ global_best' = <<NewBest(val, global_best[1])>>
            /\ fs' = [fs EXCEPT !["best"] = <<model>>]
            /\ best_writes' = Append(best_writes, epoch + 1)
            /\ calls' = Append(calls, "save_best")
       ELSE UNCHANGED <<global_best, fs, best_writes, calls>>
    /\ epoch' = epoch + 1
    /\ pc' = "loop"
    /\ UNCHANGED <<args, loaders, model, batch, val, csv,
                   summary, yTrue, yPred, score, lossIn, lossOut>>

\* line 85: range(args.epochs) is exhausted
LoopEnd ==
    /\ pc = "loop"
    /\ ~LoopCond(epoch, args.epochs)
    /\ pc' = "summary"
    /\ UNCHANGED <<args, loaders, fs, model, epoch, batch, global_best, val, csv,
                   calls, best_writes, summary, yTrue, yPred, score, lossIn, lossOut>>

\* line 169: args.print_summary(global_best_loss, global_best_acc, global_best_avg_acc)
PrintSummary ==
    /\ pc = "summary"
    /\ summary' = Append(summary, global_best[1])
    /\ pc' = "done"
    /\ UNCHANGED <<args, loaders, fs, model, epoch, batch, global_best, val, csv,
                   calls, best_writes, yTrue, yPred, score, lossIn, lossOut>>

----------------------------------------------------------------------------
(* test(args, state_dict) *)

\* the labels of the test partition
TestLabels == <<0, 1, 1>>

OriginSeed(origin) == CASE origin = "init" -> 0 [] origin = "ckpt" -> 1 [] OTHER -> 2

\* lines 194-195: the class the loaded weights predict for test sample k; the
\* network is a black box, so any fixed function of the weights stands for it
\* (model.eval() and no_grad make the pass deterministic in the weights)
Forward(m, k) == (OriginSeed(m.origin) + m.steps + k) % 2

\* lines 190-201: one inference pass over the test partition and its two metrics
Evaluate(m) ==
    LET pred == [k \in 1..Len(TestLabels) |-> Forward(m, k)]
    IN  [pred |-> pred,
         acc |-> accuracy_score(TestLabels, pred),
         avg_acc |-> balanced_accuracy_score(TestLabels, pred)]

\* lines 179-182: the file test() loads
TestPath(state_dict) == IF state_dict = "None" THEN "best" ELSE state_dict

\* what test(args, state_dict) yields on the files `files`
TestOutcome(files, state_dict) ==
    IF files[TestPath(state_dict)] = <<>>
    THEN [state_dict |-> state_dict, raised |-> TRUE, acc |-> <<0, 1>>, avg_acc |-> <<0, 1>>]
    ELSE LET r == Evaluate(files[TestPath(state_dict)][1])
         IN  [state_dict |-> state_dict, raised |-> FALSE, acc |-> r.acc, avg_acc |-> r.avg_acc]

\* lines 171-206
Test ==
    /\ pc = "done"
    /\ \E sd \in {"None", "ckpt"} :
          LET out == TestOutcome(fs, sd) IN
          /\ score' = <<out>>
          /\ yTrue' = TestLabels
          /\ yPred' = IF out.raised THEN <<>> ELSE Evaluate(fs[TestPath(sd)][1]).pred
          /\ pc' = IF out.raised THEN "testFailed" ELSE "tested"
    /\ UNCHANGED <<args, loaders, fs, model, epoch, batch, global_best, val, csv,
                   calls, best_writes, summary, lossIn, lossOut>>

Next ==
    \/ Start
    \/ EpochBegin
    \/ TrainBatch
    \/ BatchFail
    \/ TrainPassEnd
    \/ ValBatch
    \/ ValPassEnd
    \/ EmitCsv
    \/ SaveLatest
    \/ BestCheck
    \/ LoopEnd
    \/ PrintSummary
    \/ Test

Spec == Init /\ [][Next]_vars

----------------------------------------------------------------------------
(* The metrics on their own: SpecMetrics *)

Labels == 0..MaxLabel

\* the state of train()/test() while only a pure function is exercised
Parked(at) ==
    /\ pc = at
    /\ args = [epochs |-> 0, dry_ryn |-> FALSE, last_checkpoint |-> ""]
    /\ loaders = [train |-> 0, validation |-> 0]
    /\ fs = [p \in Paths |-> <<>>]
    /\ model = FreshModel
    /\ epoch = 0
    /\ batch = 0
    /\ global_best = <<>>
    /\ val = NoVal
    /\ csv = <<>>
    /\ calls = <<>>
    /\ best_writes = <<>>
    /\ summary = <<>>

MetricsInit ==
    /\ Parked("metrics")
    /\ \E n \in 1..MaxLen :
          /\ yTrue \in [1..n -> Labels]
          /\ yPred \in [1..n -> Labels]
    /\ score = <<>>
    /\ IdleLoss

\* lines 150-151 / 200-201: both metrics of one pair of label sequences
ComputeMetrics ==
    /\ pc = "metrics"
    /\ score' = <<[acc |-> accuracy_score(yTrue, yPred),
                   avg_acc |-> balanced_accuracy_score(yTrue, yPred)]>>
    /\ pc' = "scored"
    /\ UNCHANGED <<args, loaders, fs, model, epoch, batch, global_best, val, csv,
                   calls, best_writes, summary, yTrue, yPred, lossIn, lossOut>>

MetricsNext == ComputeMetrics

SpecMetrics == MetricsInit /\ [][MetricsNext]_vars

----------------------------------------------------------------------------
(* calculate_loss: SpecLoss.  A float is modelled by its IEEE-754 kind;      *)
(* finite logits are assumed, so a log-probability is finite and <= 0.       *)

Infs == {"inf", "-inf"}

Negs == {"neg", "-inf"}

FKindOf(n) == IF n = 0 THEN "zero" ELSE IF n > 0 THEN "pos" ELSE "neg"

FNeg(a) ==
    CASE a = "pos" -> "neg" [] a = "neg" -> "pos"
      [] a = "inf" -> "-inf" [] a = "-inf" -> "inf" [] OTHER -> a

FMul(a, b) ==
    IF a = "nan" \/ b = "nan" THEN "nan"
    ELSE IF (a \in Infs /\ b = "zero") \/ (b \in Infs /\ a = "zero") THEN "nan"
    ELSE IF a = "zero" \/ b = "zero" THEN "zero"
    ELSE LET negative == (a \in Negs) # (b \in Negs)
             infinite == a \in Infs \/ b \in Infs
         IN  IF infinite THEN (IF negative THEN "-inf" ELSE "inf")
             ELSE (IF negative THEN "neg" ELSE "pos")

\* tensor / python int n, n >= 0: torch divides by zero without raising
FDivInt(a, n) ==
    IF a = "nan" THEN "nan"
    ELSE IF n # 0 THEN a
    ELSE IF a = "zero" THEN "nan"
    ELSE IF a \in Negs THEN "-inf" ELSE "inf"

\* opposite finite signs never meet in calculate_loss
FAdd(a, b) ==
    CASE a = "nan" \/ b = "nan" -> "nan"
      [] a \in Infs /\ b \in Infs /\ a # b -> "nan"
      [] a \in Infs -> a
      [] b \in Infs -> b
      [] a = "zero" -> b
      [] b = "zero" -> a
      [] a = b -> a

RECURSIVE FSum(_, _)
FSum(f, n) == IF n = 0 THEN "zero" ELSE FAdd(FSum(f, n - 1), f[n])

\* line 44, in tenths
eps == 2

\* line 49: F.log_softmax of a row of n_class finite logits
log_softmax(n_class) == IF n_class = 1 THEN "zero" ELSE "neg"

\* line 48: one_hot * (1 - eps) + (1 - one_hot) * eps / (n_class - 1), one entry
smooth(hot, n_class) ==
    FAdd(FMul(FKindOf(hot), FKindOf(10 - eps)),
         FDivInt(FMul(FKindOf(1 - hot), FKindOf(eps)), n_class - 1))

\* lines 38-55: calculate_loss(pred, gold, smoothing), pred of shape
\* Len(gold) x n_class; scatter / cross_entropy raise on a label out of range
calculate_loss(n_class, gold, smoothing) ==
    IF \E b \in 1..Len(gold) : gold[b] \notin 0..(n_class - 1)
    THEN [raised |-> TRUE, loss |-> "none"]
    ELSE IF smoothing
    THEN LET one_hot == [b \in 1..Len(gold) |->
                            [c \in 1..n_class |-> IF gold[b] = c - 1 THEN 1 ELSE 0]]
             soft == [b \in 1..Len(gold) |->
                            [c \in 1..n_class |-> smooth(one_hot[b][c], n_class)]]
             rows == [b \in 1..Len(gold) |->
                        FSum([c \in 1..n_class |->
                                 FMul(soft[b][c], log_softmax(n_class))], n_class)]
         IN  [raised |-> FALSE,
              loss |-> FNeg(FDivInt(FSum(rows, Len(gold)), Len(gold)))]
    ELSE [raised |-> FALSE, loss |-> FNeg(log_softmax(n_class))]

LossInit ==
    /\ Parked("loss")
    /\ IdleMetrics
    /\ \E n \in 1..MaxClasses, b \in 1..MaxBatchSize, s \in BOOLEAN :
          \E g \in [1..b -> 0..(MaxClasses - 1)] :
             lossIn = <<[n_class |-> n, gold |-> g, smoothing |-> s]>>
    /\ lossOut = <<>>

\* line 105 / 141: loss = criterion(logits, label)
CallLoss ==
    /\ pc = "loss"
    /\ lossOut' = <<calculate_loss(lossIn[1].n_class, lossIn[1].gold,
                                   lossIn[1].smoothing)>>
    /\ pc' = "lossDone"
    /\ UNCHANGED <<args, loaders, fs, model, epoch, batch, global_best, val, csv,
                   calls, best_writes, summary, yTrue, yPred, score, lossIn>>

LossNext == CallLoss

SpecLoss == LossInit /\ [][LossNext]_vars

----------------------------------------------------------------------------
(* Vocabulary of the properties *)

\* the weights after the training pass of the e-th epoch of this run (1-based)
ModelAfterEpoch(e) ==
    [origin |-> IF args.last_checkpoint = "" THEN "init" ELSE args.last_checkpoint,
     steps |-> e * loaders.train]

\* no file has been written by this run
Untouched(files) == \A p \in Paths : files[p] \in {<<>>, <<PrevState(p)>>}

\* the highest validation balanced accuracy of the epochs before the e-th, 0 if none
PriorBest(e) ==
    LET S == {0} \cup {csv[j].avg_acc : j \in 1..(e - 1)}
    IN  CHOOSE m \in S : \A x \in S : x <= m

\* the earliest of the first n epochs that reached their highest balanced accuracy
EarliestBestEpoch(n) ==
    CHOOSE e \in 1..n : /\ csv[e].avg_acc = PriorBest(n + 1)
                        /\ \A j \in 1..(e - 1) : csv[j].avg_acc < csv[e].avg_acc

Range(q) == {q[k] : k \in 1..Len(q)}

Count(q, x) == Cardinality({k \in 1..Len(q) : q[k] = x})

IsPrefix(q, r) == Len(q) <= Len(r) /\ \A k \in 1..Len(q) : q[k] = r[k]

Triple(r) == [loss |-> r.loss, acc |-> r.acc, avg_acc |-> r.avg_acc]

Returned == {"done", "tested", "testFailed"}

\* the calls of one full epoch, in order
EpochCalls ==
    <<"scheduler.step">> \o [k \in 1..loaders.train |-> "opt.step"]
        \o [k \in 1..loaders.validation |-> "val.forward"]
        \o <<"csv", "save_latest", "save_best">>

----------------------------------------------------------------------------
(* C1: with dry-run off, best_model.m7 is written at the end of an epoch     *)
(* exactly when that epoch's validation balanced accuracy strictly exceeds  *)
(* the best one so far (0 at start); a tie writes nothing; the best         *)
(* balanced accuracy is the running maximum, hence never decreases; for     *)
(* balanced accuracies 0.5, 0.5, 0.6 the slot is written at epochs 1 and 3. *)
C1_BestWrittenOnStrictImprovement ==
    ~args.dry_ryn /\ global_best # <<>> =>
      /\ epoch <= Len(csv)
      /\ \A e \in 1..epoch :
            (e \in Range(best_writes)) <=> (csv[e].avg_acc > PriorBest(e))
      /\ \A k \in 1..Len(best_writes) :
            /\ best_writes[k] \in 1..epoch
            /\ \A j \in 1..(k - 1) : best_writes[j] < best_writes[k]
      /\ global_best[1].avg_acc = PriorBest(epoch + 1)
      /\ (epoch = 3 /\ <<csv[1].avg_acc, csv[2].avg_acc, csv[3].avg_acc>> = <<5, 5, 6>>)
            => best_writes = <<1, 3>>

C1_Witness ==
    /\ ~args.dry_ryn
    /\ pc = "done"
    /\ epoch = 3
    /\ <<csv[1].avg_acc, csv[2].avg_acc, csv[3].avg_acc>> = <<5, 5, 6>>
    /\ best_writes = <<1, 3>>

(* C2 as claimed: in every state of a train() run best_model.m7 exists and   *)
(* holds the weights of the earliest epoch with the highest validation      *)
(* balanced accuracy seen so far.                                           *)
C2_BestSlotAlwaysHoldsBestEpoch ==
    pc \notin {"metrics", "scored", "loss", "lossDone"} =>
      /\ fs["best"] # <<>>
      /\ epoch >= 1 /\ epoch <= Len(csv)
            => fs["best"] = <<ModelAfterEpoch(EarliestBestEpoch(epoch))>>

(* C2 as amended: there is one best slot; once an epoch of this run has had  *)
(* a validation balanced accuracy above 0 the slot holds the weights of the *)
(* earliest epoch with the highest balanced accuracy so far; until then it  *)
(* is as the run found it (absent, or left by an earlier run).              *)
C2_BestSlotHoldsBestEpochOncePositive ==
    epoch <= Len(csv) /\
    IF \E e \in 1..epoch : csv[e].avg_acc > 0
    THEN fs["best"] = <<ModelAfterEpoch(EarliestBestEpoch(epoch))>>
    ELSE fs["best"] \in {<<>>, <<PrevState("best")>>}

C2_Witness ==
    /\ pc = "done"
    /\ epoch = 3
    /\ <<csv[1].avg_acc, csv[2].avg_acc, csv[3].avg_acc>> = <<0, 5, 5>>
    /\ fs["best"] = <<ModelAfterEpoch(2)>>
    /\ loaders.train = 2

(* C3 as claimed: with the dry-run flag set, a train() call that returns has *)
(* run exactly one training batch, whatever the epoch count, emitted no row *)
(* and written no slot, and the best triple is the sentinel.                *)
C3_DryRunExactlyOneBatch ==
    args.dry_ryn /\ pc = "done" =>
      /\ model.steps = 1
      /\ csv = <<>>
      /\ Untouched(fs)
      /\ global_best = <<Sentinel>>

(* C3 as amended: with the dry-run flag set no validation pass runs, no row  *)
(* is emitted, no slot is written and the best triple stays the sentinel;   *)
(* at most one training batch runs, and a train() call that returns has run *)
(* exactly one when the epoch count is at least 1 (the train loader then    *)
(* had a batch), and none when the epoch count is 0.                        *)
C3_DryRunAtMostOneBatch ==
    args.dry_ryn /\ pc \notin {"metrics", "scored", "loss", "lossDone"} =>
      /\ model.steps \in {0, 1}
      /\ model.origin = ModelAfterEpoch(0).origin \/ pc \in {"start", "aborted"}
      /\ pc \notin {"val", "csv", "save", "best"}
      /\ Count(calls, "val.forward") = 0
      /\ csv = <<>>
      /\ Untouched(fs)
      /\ best_writes = <<>>
      /\ global_best \in {<<>>, <<Sentinel>>}
      /\ epoch = 0
      /\ pc \in Returned =>
            /\ global_best = <<Sentinel>>
            /\ summary = <<Sentinel>>
            /\ model.steps = (IF args.epochs >= 1 THEN 1 ELSE 0)
            /\ args.epochs >= 1 => loaders.train >= 1

C3_Witness ==
    /\ args.dry_ryn
    /\ pc = "done"
    /\ args.epochs = 3
    /\ loaders.train = 2
    /\ model.steps = 1
    /\ csv = <<>>

(* C4: with dry-run off, the latest checkpoint is written once per epoch,    *)
(* after the validation pass and whatever its result, with the weights the  *)
(* epoch's training pass left; after N >= 1 epochs it holds epoch N's.      *)
C4_LatestWrittenEveryEpoch ==
    ~args.dry_ryn /\ pc \notin {"metrics", "scored", "loss", "lossDone"} =>
      LET written == IF pc = "best" THEN epoch + 1 ELSE epoch IN
      /\ IF written >= 1 THEN fs["ckpt"] = <<ModelAfterEpoch(written)>>
         ELSE fs["ckpt"] \in {<<>>, <<PrevState("ckpt")>>}
      /\ Count(calls, "save_latest") =
            (IF pc = "best" \/ (epoch >= 1 /\ pc \in {"loop", "summary"} \cup Returned)
             THEN 1 ELSE 0)
      /\ pc = "done" /\ args.epochs >= 1 =>
            /\ epoch = args.epochs
            /\ fs["ckpt"] = <<model>>
            /\ model = ModelAfterEpoch(args.epochs)

C4_Witness ==
    /\ ~args.dry_ryn
    /\ pc = "done"
    /\ args.epochs = 3
    /\ \A e \in 1..3 : csv[e].avg_acc = 0
    /\ fs["ckpt"] = <<ModelAfterEpoch(3)>>
    /\ loaders.train = 2

(* C5: a failure raised in the training or the validation pass of an epoch   *)
(* ends the run for good; no row is emitted for that epoch and both slots   *)
(* stay exactly as the previous epoch left them.                            *)
C5_FailureLeavesCheckpointsIntact ==
    [][ /\ pc # "aborted"
        /\ pc \in {"loop", "train", "trainEnd", "val"} =>
              /\ fs' = fs
              /\ csv' = csv
              /\ Len(csv) = epoch
        /\ pc' = "aborted" /\ pc # "start" =>
              /\ Len(csv') = epoch'
              /\ epoch' >= 1 => fs'["ckpt"] = <<ModelAfterEpoch(epoch')>>
              /\ C2_BestSlotHoldsBestEpochOncePositive' ]_vars

C5_Witness ==
    /\ pc = "aborted"
    /\ epoch = 1
    /\ loaders.train = 2
    /\ calls = <<"scheduler.step", "opt.step", "opt.step">>
    /\ model.steps = 4
    /\ fs["ckpt"] = <<ModelAfterEpoch(1)>>
    /\ Len(csv) = 1

(* C6: resuming from a checkpoint and training for 0 epochs leaves the       *)
(* loaded weights and both files as they were, so test() afterwards yields  *)
(* what evaluating the original file yields.                                *)
C6_ResumeZeroEpochsSameEvaluation ==
    args.epochs = 0 /\ args.last_checkpoint # "" /\ pc \in {"tested", "testFailed"} =>
      /\ Untouched(fs)
      /\ fs[args.last_checkpoint] = <<PrevState(args.last_checkpoint)>>
      /\ model = PrevState(args.last_checkpoint)
      /\ score = <<TestOutcome(
                     [p \in Paths |-> IF fs[p] = <<>> THEN <<>> ELSE <<PrevState(p)>>],
                     score[1].state_dict)>>
      /\ TestPath(score[1].state_dict) = args.last_checkpoint =>
            /\ ~score[1].raised
            /\ score[1].acc = Evaluate(model).acc
            /\ score[1].avg_acc = Evaluate(model).avg_acc

C6_Witness ==
    /\ pc = "tested"
    /\ args.epochs = 0
    /\ args.last_checkpoint = "ckpt"
    /\ score[1].state_dict = "ckpt"
    /\ model = PrevState("ckpt")

\* the true classes that are never predicted
NeverPredicted ==
    {c \in TrueClasses(yTrue) : \A k \in 1..Len(yPred) : yPred[k] # c}

(* C7 as claimed: when some class with a true instance is never predicted,   *)
(* the balanced accuracy is strictly below the accuracy.                    *)
C7_BalancedBelowAccuracy ==
    pc = "scored" /\ NeverPredicted # {} =>
      RatLT(score[1].avg_acc, score[1].acc)

(* C7 as amended: when some class with a true instance is never predicted,   *)
(* the balanced accuracy is at most 1 - 1/K (K the number of true classes)  *)
(* and the accuracy is below 1; the balanced accuracy is strictly below the *)
(* accuracy when moreover every instance of the other classes is predicted  *)
(* correctly and the never-predicted classes hold less than their |Z|/K     *)
(* share of the instances.                                                  *)
C7_BalancedBelowAccuracyForRareMissedClass ==
    pc = "scored" /\ NeverPredicted # {} =>
      LET K == Cardinality(TrueClasses(yTrue))
          Z == NeverPredicted
          nZ == Cardinality({k \in 1..Len(yTrue) : yTrue[k] \in Z})
          othersRight == \A k \in 1..Len(yTrue) :
                            yTrue[k] \notin Z => yPred[k] = yTrue[k]
      IN  /\ RatLE(score[1].avg_acc, <<K - 1, K>>)
          /\ RatLT(score[1].acc, <<1, 1>>)
          /\ othersRight /\ nZ * K < Cardinality(Z) * Len(yTrue)
                => RatLT(score[1].avg_acc, score[1].acc)

C7_Witness ==
    /\ pc = "scored"
    /\ yTrue = <<0, 0, 1>>
    /\ yPred = <<0, 0, 0>>
    /\ NeverPredicted = {1}
    /\ score[1].acc = <<2, 3>>
    /\ RatLT(score[1].avg_acc, score[1].acc)

(* C8: calculate_loss with smoothing and a single class column raises        *)
(* instead of returning a loss.                                             *)
C8_SingleClassSmoothingFailsFast ==
    pc = "lossDone" /\ lossIn[1].smoothing /\ lossIn[1].n_class = 1 =>
      lossOut[1].raised

(* C9: with dry-run off every epoch is scheduler step, then the training     *)
(* batches with their optimizer steps, then the validation batches without  *)
(* any, then one row, then the latest checkpoint, then the best slot if     *)
(* any; rows carry the epoch indices 0, 1, ... in order; the summary is     *)
(* reported once, after the last epoch.                                     *)
C9_EpochPhasesInOrder ==
    ~args.dry_ryn /\ pc \notin {"metrics", "scored", "loss", "lossDone"} =>
      /\ IsPrefix(calls, EpochCalls)
      /\ Len(calls) =
            CASE pc \in {"train", "trainEnd"} -> 1 + batch
              [] pc = "val"  -> 1 + loaders.train + batch
              [] pc = "csv"  -> 1 + loaders.train + loaders.validation
              [] pc = "save" -> 2 + loaders.train + loaders.validation
              [] pc = "best" -> 3 + loaders.train + loaders.validation
              [] pc = "aborted" -> Len(calls)
              [] OTHER -> IF epoch = 0 THEN 0
                          ELSE 3 + loaders.train + loaders.validation
                                 + Count(calls, "save_best")
      /\ model.steps =
            CASE pc \in {"train", "trainEnd"} -> epoch * loaders.train + batch
              [] pc \in {"val", "csv", "save", "best"} -> (epoch + 1) * loaders.train
              [] pc = "aborted" -> model.steps
              [] OTHER -> epoch * loaders.train
      /\ Len(csv) = epoch + (IF pc \in {"save", "best"} THEN 1 ELSE 0)
      /\ \A r \in 1..Len(csv) : csv[r].epoch = r - 1
      /\ Len(summary) = (IF pc \in Returned THEN 1 ELSE 0)
      /\ pc \in {"summary"} \cup Returned =>
            /\ epoch = args.epochs
            /\ Len(csv) = args.epochs
      /\ pc \in Returned => summary = global_best

C9_Witness ==
    /\ ~args.dry_ryn
    /\ pc = "done"
    /\ args.epochs = 3
    /\ loaders = [train |-> 2, validation |-> 1]
    /\ calls = EpochCalls
    /\ Len(csv) = 3
    /\ model.steps = 6

\* the first epoch of this run with a validation balanced accuracy above 0
FirstPositive(e) ==
    /\ e \in 1..epoch
    /\ csv[e].avg_acc > 0
    /\ \A j \in 1..(e - 1) : csv[j].avg_acc = 0

(* C10: the best triple starts every train() call at the all-zero sentinel,  *)
(* whatever the best slot or the resumed checkpoint holds; so the first     *)
(* epoch with a balanced accuracy above 0 overwrites the best slot, also in *)
(* a resumed run whose slot held an earlier run's weights; the triple       *)
(* reported at the end is the sentinel or one epoch's own triple.           *)
C10_BestStateStartsAtSentinel ==
    pc \notin {"metrics", "scored", "loss", "lossDone"} /\ epoch <= Len(csv) =>
      /\ global_best = <<>> <=>
            \/ pc = "start"
            \/ pc = "aborted" /\ args.last_checkpoint # "" /\ model = FreshModel
                 /\ calls = <<>>
      /\ epoch = 0 /\ global_best # <<>> => global_best = <<Sentinel>>
      /\ \A e \in 1..epoch : FirstPositive(e) =>
            /\ best_writes # <<>> /\ best_writes[1] = e
            /\ fs["best"] # <<PrevState("best")>>
            /\ fs["best"] # <<>>
      /\ global_best # <<>> =>
            \/ global_best[1] = Sentinel /\ \A e \in 1..epoch : csv[e].avg_acc = 0
            \/ \E e \in 1..epoch : global_best[1] = Triple(csv[e])
      /\ summary # <<>> =>
            \/ summary[1] = Sentinel
            \/ \E e \in 1..epoch : summary[1] = Triple(csv[e])

C10_Witness ==
    /\ pc = "done"
    /\ args.last_checkpoint = "best"
    /\ epoch = 2
    /\ csv[1].avg_acc = 0
    /\ csv[2].avg_acc = 5
    /\ best_writes = <<2>>
    /\ fs["best"] = <<ModelAfterEpoch(2)>>
    /\ summary = <<Triple(csv[2])>>

====
